---- MODULE Spec2Model ----
(***************************************************************************)
(* ClientSession::embedding of pretty-good-embeddings (src/src/lib.rs):    *)
(* tokenize -> build the three (1, n) integer arrays -> run the ONNX       *)
(* session -> attention-masked mean pooling -> L2 normalisation -> Vec.    *)
(*                                                                         *)
(* f32 values are modelled exactly: a finite value is q * sqrt(r) with q   *)
(* and r rationals (r = 1 for every value that is not the result of the    *)
(* square root of line 127), plus the IEEE-754 values NaN, +Inf and -Inf   *)
(* with their propagation rules.  Rounding is not modelled, the sign of    *)
(* zero is not modelled, and finite results never overflow.                *)
(*                                                                         *)
(* ndarray arrays are records [tag, shape, data]: shape is the sequence of *)
(* axis lengths and data maps every 0-based index tuple to its element.    *)
(***************************************************************************)
EXTENDS Integers, Sequences, FiniteSets, TLC

\* Longest token sequence a tokenizer or a model of the bounded check yields.
MaxSeq == 2

\* Largest hidden dimension of a model of the bounded check.
MaxHidden == 2

\* Largest number of f32 elements of an output tensor of the bounded check.
MaxCells == 4

\* Largest number of embedding calls with one text in a behaviour.
MaxCalls == 2

----------------------------------------------------------------------------
\* Integer helpers.

Abs(n) ==
    IF n < 0 THEN -n ELSE n

RECURSIVE Gcd(_, _)
Gcd(a, b) ==
    IF b = 0 THEN a ELSE Gcd(b, a % b)

IsSquare(n) ==
    \E k \in 0..n : k * k = n

ISqrt(n) ==
    CHOOSE k \in 0..n : k * k = n

----------------------------------------------------------------------------
\* f32.

NaN ==
    [k |-> "nan", n |-> 0, d |-> 1, rn |-> 1, rd |-> 1]

Inf(s) ==
    [k |-> "inf", n |-> s, d |-> 1, rn |-> 1, rd |-> 1]

\* The finite value (n / d) * sqrt(rn / rd), d > 0, rn > 0, rd > 0, in lowest
\* terms; a rational square under the root is taken out of it.
MkFin(n, d, rn, rd) ==
    IF n = 0 THEN [k |-> "fin", n |-> 0, d |-> 1, rn |-> 1, rd |-> 1]
    ELSE LET gr == Gcd(rn, rd)
             an == rn \div gr
             ad == rd \div gr
             sq == IsSquare(an) /\ IsSquare(ad)
             qn == IF sq THEN n * ISqrt(an) ELSE n
             qd == IF sq THEN d * ISqrt(ad) ELSE d
             g  == Gcd(Abs(qn), qd)
         IN  [k |-> "fin", n |-> qn \div g, d |-> qd \div g,
              rn |-> IF sq THEN 1 ELSE an, rd |-> IF sq THEN 1 ELSE ad]

Fin(n, d) ==
    MkFin(n, d, 1, 1)

Zero ==
    Fin(0, 1)

IsFin(x) ==
    x.k = "fin"

IsZero(x) ==
    x.k = "fin" /\ x.n = 0

\* -1, 0 or 1.
Sign(x) ==
    IF x.n < 0 THEN -1 ELSE IF x.n > 0 THEN 1 ELSE 0

\* a / b < c / d for naturals a, c and positive b, d, by continued fractions
\* (no product is formed, so 1e-9 compares without leaving the integers).
RECURSIVE RatLess(_, _, _, _)
RatLess(a, b, c, d) ==
    LET qa == a \div b
        qc == c \div d
        ra == a % b
        rc == c % d
    IN  IF qa # qc THEN qa < qc
        ELSE IF rc = 0 THEN FALSE
        ELSE IF ra = 0 THEN TRUE
        ELSE RatLess(d, rc, b, ra)

\* x < y for values without a root (IEEE: every comparison with NaN is false).
FLess(x, y) ==
    CASE x.k = "nan" \/ y.k = "nan" -> FALSE
      [] x.k = "inf" /\ y.k = "inf" -> x.n < y.n
      [] x.k = "inf" -> x.n < 0
      [] y.k = "inf" -> y.n > 0
      [] x.rn = 1 /\ x.rd = 1 /\ y.rn = 1 /\ y.rd = 1 ->
            IF Sign(x) # Sign(y) THEN Sign(x) < Sign(y)
            ELSE IF Sign(x) = 0 THEN FALSE
            ELSE IF Sign(x) > 0 THEN RatLess(x.n, x.d, y.n, y.d)
            ELSE RatLess(-y.n, y.d, -x.n, x.d)

\* f32 addition of values without a root.
FAdd(x, y) ==
    CASE x.k = "nan" \/ y.k = "nan" -> NaN
      [] x.k = "inf" /\ y.k = "inf" -> IF x.n = y.n THEN x ELSE NaN
      [] x.k = "inf" -> x
      [] y.k = "inf" -> y
      [] x.rn = 1 /\ x.rd = 1 /\ y.rn = 1 /\ y.rd = 1 ->
            Fin(x.n * y.d + y.n * x.d, x.d * y.d)

\* f32 multiplication: 0 * Inf is NaN.
FMul(x, y) ==
    CASE x.k = "nan" \/ y.k = "nan" -> NaN
      [] x.k = "inf" \/ y.k = "inf" ->
            IF Sign(x) * Sign(y) = 0 THEN NaN ELSE Inf(Sign(x) * Sign(y))
      [] OTHER -> MkFin(x.n * y.n, x.d * y.d, x.rn * y.rn, x.rd * y.rd)

\* f32 division: 0 / 0 and Inf / Inf are NaN, x / 0 is +-Inf, x / Inf is 0.
\* (q1 sqrt r1) / (q2 sqrt r2) = (q1 / (q2 r2)) sqrt(r1 r2).
FDiv(x, y) ==
    CASE x.k = "nan" \/ y.k = "nan" -> NaN
      [] x.k = "inf" /\ y.k = "inf" -> NaN
      [] x.k = "inf" -> Inf(IF Sign(y) < 0 THEN -x.n ELSE x.n)
      [] y.k = "inf" -> Zero
      [] IsZero(y) -> IF IsZero(x) THEN NaN ELSE Inf(Sign(x))
      [] OTHER ->
            LET s == Sign(y)
            IN  MkFin(s * x.n * y.d * y.rd, x.d * Abs(y.n) * y.rn,
                      x.rn * y.rn, x.rd * y.rd)

\* f32::powi(2).
FPowi2(x) ==
    FMul(x, x)

\* f32::sqrt of a value without a root: NaN below zero.
FSqrt(x) ==
    CASE x.k = "nan" -> NaN
      [] x.k = "inf" -> IF x.n > 0 THEN x ELSE NaN
      [] x.n < 0 -> NaN
      [] x.rn = 1 /\ x.rd = 1 -> MkFin(1, 1, x.n, x.d)

\* f32::max: the other operand when one is NaN.
FMaxF(x, y) ==
    CASE x.k = "nan" -> y
      [] y.k = "nan" -> x
      [] OTHER -> IF FLess(x, y) THEN y ELSE x

\* The f32 literal 1e-9 of line 125.
ClampMin ==
    Fin(1, 1000000000)

----------------------------------------------------------------------------
\* ndarray.

NoArray ==
    [tag |-> "none"]

IsArray(a) ==
    a.tag = "array"

RECURSIVE Product(_)
Product(s) ==
    IF s = <<>> THEN 1 ELSE Head(s) * Product(Tail(s))

\* Number of elements of an array of the shape.
Size(shape) ==
    Product(shape)

RECURSIVE MaxOf(_)
MaxOf(s) ==
    IF s = <<>> THEN 0
    ELSE LET m == MaxOf(Tail(s)) IN IF Head(s) > m THEN Head(s) ELSE m

\* The 0-based index tuples of the shape.
Indices(shape) ==
    {idx \in [1..Len(shape) -> 0..MaxOf(shape)] :
        \A k \in 1..Len(shape) : idx[k] < shape[k]}

\* The index tuple at position l (0-based) of the logical, row-major order.
Unravel(l, shape) ==
    [k \in 1..Len(shape) |->
        (l \div Product(SubSeq(shape, k + 1, Len(shape)))) % shape[k]]

\* The elements in logical order: ArrayBase::iter.
Iter(a) ==
    [l \in 1..Size(a.shape) |-> a.data[Unravel(l - 1, a.shape)]]

\* Array::from_shape_vec: None unless the vector has the shape's size.
FromShapeVec(shape, v) ==
    IF Size(shape) # Len(v) THEN NoArray
    ELSE [tag |-> "array", shape |-> shape,
          data |-> [idx \in Indices(shape) |->
                      v[1 + CHOOSE l \in 0..(Len(v) - 1) : Unravel(l, shape) = idx]]]

\* The sequence s with x put in front of its element p (1-based).
InsertAt(s, p, x) ==
    SubSeq(s, 1, p - 1) \o <<x>> \o SubSeq(s, p, Len(s))

RemoveAt(s, p) ==
    SubSeq(s, 1, p - 1) \o SubSeq(s, p + 1, Len(s))

\* ArrayBase::insert_axis(Axis(ax)): a new axis of length 1.
InsertAxis(a, ax) ==
    LET shape == InsertAt(a.shape, ax + 1, 1)
    IN  [tag |-> "array", shape |-> shape,
         data |-> [idx \in Indices(shape) |-> a.data[RemoveAt(idx, ax + 1)]]]

\* The shape padded with leading axes of length 1 to the rank.
PadShape(shape, rank) ==
    [k \in 1..(rank - Len(shape)) |-> 1] \o shape

\* The element of a that the index idx of a broadcast of a reads.
BroadcastRead(a, idx) ==
    LET off == Len(idx) - Len(a.shape)
    IN  a.data[[k \in 1..Len(a.shape) |->
                  IF a.shape[k] = 1 THEN 0 ELSE idx[k + off]]]

\* ArrayBase::broadcast: None unless every axis of the array, aligned at the
\* last one, has the target's length or length 1.
Broadcast(a, shape) ==
    LET from == PadShape(a.shape, Len(shape))
    IN  IF Len(a.shape) > Len(shape)
           \/ \E k \in 1..Len(shape) : from[k] # shape[k] /\ from[k] # 1
        THEN NoArray
        ELSE [tag |-> "array", shape |-> shape,
              data |-> [idx \in Indices(shape) |-> BroadcastRead(a, idx)]]

\* The common shape two operands of an arithmetic operator are broadcast to
\* (ndarray 0.15 co_broadcast), << -1 >> when there is none.
CoBroadcastShape(s1, s2) ==
    LET rank == IF Len(s1) > Len(s2) THEN Len(s1) ELSE Len(s2)
        p1 == PadShape(s1, rank)
        p2 == PadShape(s2, rank)
    IN  IF \E k \in 1..rank : p1[k] # p2[k] /\ p1[k] # 1 /\ p2[k] # 1
        THEN << -1 >>
        ELSE [k \in 1..rank |->
                IF p1[k] = p2[k] THEN p1[k]
                ELSE IF p1[k] = 1 THEN p2[k] ELSE p1[k]]

\* The arithmetic operators of the pipeline: * (line 124) and / (line 126).
Arith(op, x, y) ==
    IF op = "*" THEN FMul(x, y) ELSE FDiv(x, y)

\* a op b, element by element, both operands broadcast to their common shape;
\* the operator panics (NoArray) when the shapes have none.
BinOp(op, a, b) ==
    LET shape == CoBroadcastShape(a.shape, b.shape)
    IN  IF shape = << -1 >> THEN NoArray
        ELSE [tag |-> "array", shape |-> shape,
              data |-> [idx \in Indices(shape) |->
                          Arith(op, BroadcastRead(a, idx), BroadcastRead(b, idx))]]

\* array / scalar (line 128).
DivScalar(a, x) ==
    [tag |-> "array", shape |-> a.shape,
     data |-> [idx \in Indices(a.shape) |-> FDiv(a.data[idx], x)]]

\* The sum of a sequence of f32, from 0.0, front to back.
RECURSIVE FoldAdd(_, _)
FoldAdd(acc, s) ==
    IF s = <<>> THEN acc ELSE FoldAdd(FAdd(acc, Head(s)), Tail(s))

\* ArrayBase::sum_axis(Axis(ax)).
SumAxis(a, ax) ==
    LET shape == RemoveAt(a.shape, ax + 1)
    IN  [tag |-> "array", shape |-> shape,
         data |-> [idx \in Indices(shape) |->
                     FoldAdd(Zero, [i \in 1..a.shape[ax + 1] |->
                                      a.data[InsertAt(idx, ax + 1, i - 1)]])]]

\* ArrayBase::sum.
SumAll(a) ==
    FoldAdd(Zero, Iter(a))

----------------------------------------------------------------------------
\* Casts.

\* u32 as i64 (lines 87, 91, 95): every u32 is an i64.
U32AsI64(x) ==
    x

\* i64 as f32 (line 121), exact for the mask values 0 and 1.
I64AsF32(x) ==
    Fin(x, 1)

\* mapv(|x| x as f32) (line 121).
MapAsF32(a) ==
    [tag |-> "array", shape |-> a.shape,
     data |-> [idx \in Indices(a.shape) |-> I64AsF32(a.data[idx])]]

\* mapv(|x| x.powi(2)) (line 127).
MapPowi2(a) ==
    [tag |-> "array", shape |-> a.shape,
     data |-> [idx \in Indices(a.shape) |-> FPowi2(a.data[idx])]]

----------------------------------------------------------------------------
\* The collaborators' results.

NoValue ==
    [tag |-> "none"]

NoF32 ==
    [k |-> "none", n |-> 0, d |-> 1, rn |-> 1, rd |-> 1]

\* The error of Tokenizer::encode.
TokenizerError ==
    [tag |-> "err", source |-> "tokenizer"]

\* The error of Session::run.
InferenceError ==
    [tag |-> "err", source |-> "inference"]

\* An Encoding: get_ids, get_attention_mask and get_type_ids have one length.
Encoding(mask) ==
    [tag |-> "ok",
     ids |-> [i \in 1..Len(mask) |-> 100 + i],
     attention_mask |-> mask,
     type_ids |-> [i \in 1..Len(mask) |-> 0]]

\* The three (1, n) arrays of an encoding (lines 87-101), NoArray where
\* from_shape_vec(..).unwrap() panics.
IdsArray(enc) ==
    LET input_ids == [i \in 1..Len(enc.ids) |-> U32AsI64(enc.ids[i])]
    IN  FromShapeVec(<<1, Len(input_ids)>>, input_ids)

MaskArray(enc) ==
    LET attention_mask ==
            [i \in 1..Len(enc.attention_mask) |-> U32AsI64(enc.attention_mask[i])]
    IN  FromShapeVec(<<1, Len(attention_mask)>>, attention_mask)

TypeIdsArray(enc) ==
    LET token_type_ids == [i \in 1..Len(enc.type_ids) |-> U32AsI64(enc.type_ids[i])]
    IN  FromShapeVec(<<1, Len(token_type_ids)>>, token_type_ids)

\* The vec![..] handed to Session::run (lines 104-108).
RunInputs(enc) ==
    <<IdsArray(enc), MaskArray(enc), TypeIdsArray(enc)>>

----------------------------------------------------------------------------
\* The worlds of the bounded check: a bound tokenizer and a bound model.

Texts ==
    {"", "hello world"}

\* The 0/1 attention masks of up to MaxSeq tokens.
Masks ==
    UNION {[1..n -> {0, 1}] : n \in 0..MaxSeq}

\* The masks of a tokenizer that does not pad.
OnesMasks ==
    {[i \in 1..n |-> 1] : n \in 0..MaxSeq}

\* The f32 values of the hidden states.
HiddenValues ==
    {Fin(-1, 1), Zero, Fin(2, 1), Inf(1)}

\* The (seq_len, hidden_dim) pairs of the output tensors.
Shapes ==
    {sh \in (0..MaxSeq) \X (1..MaxHidden) : sh[1] * sh[2] <= MaxCells}

\* Every (1, seq_len, hidden_dim) tensor of hidden states.
Tensors ==
    UNION {{FromShapeVec(<<1, sh[1], sh[2]>>, v) :
                v \in [1..(sh[1] * sh[2]) -> HiddenValues]} : sh \in Shapes}

\* The (1, n, h) tensor whose element (0, i, j) is i + j + 1.
RampTensor(n, h) ==
    [tag |-> "array", shape |-> <<1, n, h>>,
     data |-> [idx \in Indices(<<1, n, h>>) |-> Fin(idx[2] + idx[3] + 1, 1)]]

\* A Vec.
Vec(items) ==
    [tag |-> "vec", items |-> items]

\* Result::Ok.
Ok(value) ==
    [tag |-> "ok", value |-> value]

\* The outputs of a run that succeeds: the hidden states come first.
RunOk(tensor) ==
    Ok(Vec(<<tensor>>))

\* The run inputs a tokenizer can lead to.
InputsOf(tok) ==
    {RunInputs(tok[t]) : t \in {u \in DOMAIN tok : tok[u].tag = "ok"}}

\* A bound pair: every session over the inputs the tokenizer can lead to.
Bind(toks, results) ==
    UNION {{[tokenizer |-> tok, session |-> ses] :
                ses \in [InputsOf(tok) -> results]} : tok \in toks}

\* One text, any mask, any output tensor or error.
PoolingWorlds ==
    Bind([{""} -> {TokenizerError} \cup {Encoding(m) : m \in Masks}],
         {InferenceError} \cup {RunOk(t) : t \in Tensors})

\* Two texts, a tokenizer that does not pad, and a model that fails or
\* yields a ramp of hidden states.
SessionWorlds ==
    Bind([Texts -> {TokenizerError} \cup {Encoding(m) : m \in OnesMasks}],
         {InferenceError} \cup {RunOk(RampTensor(sh[1], sh[2])) : sh \in Shapes})

----------------------------------------------------------------------------
\* State.

VARIABLES
    environment,            \* Client::environment
    tokenizer,              \* ClientSession::tokenizer: text -> encode(text, true)
    session,                \* ClientSession::session: run inputs -> run result
    pc,                     \* the place of the call in embedding
    input,                  \* the text of the call
    encoding,
    input_ids_array,
    attention_mask_array,
    token_type_ids_array,
    outputs,
    token_embeddings,
    input_mask_expanded,
    token_masked_sum,
    mask_sum,
    mean_pooling,
    l2_norm,
    sentence_embeddings,
    vec,
    result,                 \* what the last call returned to its caller
    trace,                  \* history: the steps of the call, in order
    seen,                   \* history: the first result of every text
    calls                   \* history: the number of calls with every text

bound == <<environment, tokenizer, session>>

locals == <<encoding, input_ids_array, attention_mask_array, token_type_ids_array,
            outputs, token_embeddings, input_mask_expanded, token_masked_sum,
            mask_sum, mean_pooling, l2_norm, sentence_embeddings, vec>>

vars == <<bound, pc, input, locals, result, trace, seen, calls>>

\* Client::new (lines 16-25).
Environment ==
    [name |-> "onnx metadata", log_level |-> "Verbose"]

\* No local of embedding is alive.
LocalsDropped ==
    /\ encoding = NoValue
    /\ input_ids_array = NoArray
    /\ attention_mask_array = NoArray
    /\ token_type_ids_array = NoArray
    /\ outputs = NoValue
    /\ token_embeddings = NoArray
    /\ input_mask_expanded = NoArray
    /\ token_masked_sum = NoArray
    /\ mask_sum = NoArray
    /\ mean_pooling = NoArray
    /\ l2_norm = NoF32
    /\ sentence_embeddings = NoArray
    /\ vec = NoValue

InitCall ==
    /\ environment = Environment
    /\ pc = "idle"
    /\ input = ""
    /\ LocalsDropped
    /\ result = NoValue
    /\ trace = <<>>
    /\ seen = [t \in DOMAIN tokenizer |-> NoValue]
    /\ calls = [t \in DOMAIN tokenizer |-> 0]

\* A session of Client::init_with_path / init_with_bytes (lines 27-69).
Init ==
    /\ \E w \in PoolingWorlds \cup SessionWorlds :
          /\ tokenizer = w.tokenizer
          /\ session = w.session
    /\ InitCall

\* The call returns r: its locals are dropped.
Leave(r) ==
    /\ pc' = "idle"
    /\ result' = r
    /\ seen' = IF seen[input] = NoValue THEN [seen EXCEPT ![input] = r] ELSE seen
    /\ encoding' = NoValue
    /\ input_ids_array' = NoArray
    /\ attention_mask_array' = NoArray
    /\ token_type_ids_array' = NoArray
    /\ outputs' = NoValue
    /\ token_embeddings' = NoArray
    /\ input_mask_expanded' = NoArray
    /\ token_masked_sum' = NoArray
    /\ mask_sum' = NoArray
    /\ mean_pooling' = NoArray
    /\ l2_norm' = NoF32
    /\ sentence_embeddings' = NoArray
    /\ vec' = NoValue

\* A panic unwinds the call: nothing is returned.
Panic ==
    /\ pc' = "panicked"
    /\ UNCHANGED <<result, seen>>

\* embedding(input) is entered (line 83).
Call ==
    /\ pc = "idle"
    /\ \E t \in DOMAIN tokenizer :
          /\ calls[t] < MaxCalls
          /\ input' = t
          /\ calls' = [calls EXCEPT ![t] = @ + 1]
    /\ pc' = "start"
    /\ trace' = <<>>
    /\ UNCHANGED <<bound, locals, result, seen>>

\* self.tokenizer.encode(input, true)? (line 84).
Encode ==
    /\ pc = "start"
    /\ trace' = Append(trace, "encode(input, true)")
    /\ LET r == tokenizer[input]
       IN  IF r.tag = "err"
           THEN /\ Leave(r)
                /\ UNCHANGED <<bound, calls, input>>
           ELSE /\ encoding' = r
                /\ pc' = "encoded"
                /\ UNCHANGED <<bound, calls, input, input_ids_array, attention_mask_array,
                               token_type_ids_array, outputs, token_embeddings,
                               input_mask_expanded, token_masked_sum, mask_sum,
                               mean_pooling, l2_norm, sentence_embeddings, vec,
                               result, seen>>

\* The three input arrays (lines 87-101).
BuildArrays ==
    /\ pc = "encoded"
    /\ trace' = Append(trace, "build")
    /\ input_ids_array' = IdsArray(encoding)
    /\ attention_mask_array' = MaskArray(encoding)
    /\ token_type_ids_array' = TypeIdsArray(encoding)
    /\ IF \E a \in {IdsArray(encoding), MaskArray(encoding), TypeIdsArray(encoding)} :
              ~IsArray(a)
       THEN Panic
       ELSE pc' = "built" /\ UNCHANGED <<result, seen>>
    /\ UNCHANGED <<bound, calls, input, encoding, outputs, token_embeddings,
                   input_mask_expanded, token_masked_sum, mask_sum, mean_pooling,
                   l2_norm, sentence_embeddings, vec>>

\* Lines 104-108 with a fallback: a failed run yields an empty vector.
RunWithFallback ==
    /\ pc = "built"
    /\ trace' = Append(trace, "run")
    /\ LET r == session[<<input_ids_array, attention_mask_array,
                          token_type_ids_array>>]
       IN  IF r.tag = "err"
           THEN /\ Leave(Ok(Vec(<<>>)))
                /\ UNCHANGED <<bound, calls, input>>
           ELSE /\ outputs' = r.value
                /\ pc' = "ran"
                /\ UNCHANGED <<bound, calls, input, encoding, input_ids_array,
                               attention_mask_array, token_type_ids_array,
                               token_embeddings, input_mask_expanded,
                               token_masked_sum, mask_sum, mean_pooling, l2_norm,
                               sentence_embeddings, vec, result, seen>>

\* Lines 104-108 with a retry: a failed run is run again.
RunRetrying ==
    /\ pc = "built"
    /\ trace' = Append(trace, "run")
    /\ LET r == session[<<input_ids_array, attention_mask_array,
                          token_type_ids_array>>]
       IN  /\ outputs' = IF r.tag = "err" THEN outputs ELSE r.value
           /\ pc' = IF r.tag = "err" THEN "built" ELSE "ran"
           /\ UNCHANGED <<bound, calls, input, encoding, input_ids_array,
                          attention_mask_array, token_type_ids_array,
                          token_embeddings, input_mask_expanded,
                          token_masked_sum, mask_sum, mean_pooling, l2_norm,
                          sentence_embeddings, vec, result, seen>>

\* Lines 104-108 with a run that uses the session up: the session fails on
\* the same inputs from then on.
RunConsuming ==
    /\ pc = "built"
    /\ trace' = Append(trace, "run")
    /\ LET ins == <<input_ids_array, attention_mask_array, token_type_ids_array>>
           r == session[ins]
       IN  IF r.tag = "err"
           THEN /\ Leave(r)
                /\ UNCHANGED <<bound, calls, input>>
           ELSE /\ outputs' = r.value
                /\ pc' = "ran"
                /\ session' = [session EXCEPT ![ins] = InferenceError]
                /\ UNCHANGED <<environment, tokenizer, calls, input, encoding,
                               input_ids_array, attention_mask_array,
                               token_type_ids_array, token_embeddings,
                               input_mask_expanded, token_masked_sum, mask_sum,
                               mean_pooling, l2_norm, sentence_embeddings, vec,
                               result, seen>>

\* self.session.run(vec![..])? (lines 104-108).
Run ==
    /\ pc = "built"
    /\ trace' = Append(trace, "run")
    /\ LET r == session[<<input_ids_array, attention_mask_array,
                          token_type_ids_array>>]
       IN  IF r.tag = "err"
           THEN /\ Leave(r)
                /\ UNCHANGED <<bound, calls, input>>
           ELSE /\ outputs' = r.value
                /\ pc' = "ran"
                /\ UNCHANGED <<bound, calls, input, encoding, input_ids_array,
                               attention_mask_array, token_type_ids_array,
                               token_embeddings, input_mask_expanded,
                               token_masked_sum, mask_sum, mean_pooling, l2_norm,
                               sentence_embeddings, vec, result, seen>>

\* The mask repeated over the hidden dimension, as f32 (lines 112-121);
\* NoArray where broadcast(..).unwrap() panics.
InputMaskExpanded(mask_array, embeddings) ==
    LET b == Broadcast(InsertAxis(mask_array, 2),
                       <<mask_array.shape[1], mask_array.shape[2],
                         embeddings.shape[3]>>)
    IN  IF IsArray(b) THEN MapAsF32(b) ELSE NoArray

\* Line 124 summing over the hidden dimension, Axis(2), instead of Axis(1).
TokenMaskedSumOverHidden(embeddings, mask_expanded) ==
    LET product == BinOp("*", embeddings, mask_expanded)
    IN  IF IsArray(product) THEN SumAxis(product, 2) ELSE NoArray

\* (&token_embeddings * &input_mask_expanded).sum_axis(Axis(1)) (line 124);
\* NoArray where the product panics.
TokenMaskedSum(embeddings, mask_expanded) ==
    LET product == BinOp("*", embeddings, mask_expanded)
    IN  IF IsArray(product) THEN SumAxis(product, 1) ELSE NoArray

\* Line 125 clamping at 0.0 instead of 1e-9.
ClampAtZero(x) ==
    FMaxF(x, Zero)

\* x.max(1e-9) (line 125).
Clamp(x) ==
    FMaxF(x, ClampMin)

\* mapv(|x| x.max(1e-9)) (line 125).
MapClamp(a) ==
    [tag |-> "array", shape |-> a.shape,
     data |-> [idx \in Indices(a.shape) |-> Clamp(a.data[idx])]]

\* Line 125 counting every position, padding too: the sequence length.
MaskSumOfAll(mask_expanded) ==
    MapClamp(SumAxis([mask_expanded EXCEPT
                        !.data = [idx \in DOMAIN mask_expanded.data |-> Fin(1, 1)]], 1))

\* input_mask_expanded.sum_axis(Axis(1)).mapv(|x| x.max(1e-9)) (line 125).
MaskSum(mask_expanded) ==
    MapClamp(SumAxis(mask_expanded, 1))

\* token_masked_sum / mask_sum (line 126).
MeanPooling(masked_sum, count) ==
    BinOp("/", masked_sum, count)

\* Line 127 without the square root.
L2NormSquared(pooled) ==
    SumAll(MapPowi2(pooled))

\* mean_pooling.mapv(|x| x.powi(2)).sum().sqrt() (line 127).
L2Norm(pooled) ==
    FSqrt(SumAll(MapPowi2(pooled)))

\* mean_pooling / l2_norm (line 128).
SentenceEmbeddings(pooled, norm) ==
    DivScalar(pooled, norm)

\* Lines 131-134 pushing onto the vector of the call before.
CollectAppending(embeddings) ==
    Vec((IF result.tag = "ok" THEN result.value.items ELSE <<>>) \o Iter(embeddings))

\* The loop of lines 131-134.
Collect(embeddings) ==
    Vec(Iter(embeddings))

\* outputs[0].to_owned() and the broadcast mask (lines 111-121).
Expand ==
    /\ pc = "ran"
    /\ trace' = Append(trace, "expand")
    /\ IF Len(outputs.items) = 0
       THEN /\ Panic
            /\ UNCHANGED <<token_embeddings, input_mask_expanded>>
       ELSE LET embeddings == outputs.items[1]
                expanded == IF Len(embeddings.shape) < 3 THEN NoArray
                            ELSE InputMaskExpanded(attention_mask_array, embeddings)
            IN  /\ token_embeddings' = embeddings
                /\ input_mask_expanded' = expanded
                /\ IF IsArray(expanded)
                   THEN pc' = "expanded" /\ UNCHANGED <<result, seen>>
                   ELSE Panic
    /\ UNCHANGED <<bound, calls, input, encoding, input_ids_array, attention_mask_array,
                   token_type_ids_array, outputs, token_masked_sum, mask_sum,
                   mean_pooling, l2_norm, sentence_embeddings, vec>>

\* The masked sum and the clamped mask count (lines 124-125).
Sums ==
    /\ pc = "expanded"
    /\ trace' = Append(trace, "sums")
    /\ LET masked == TokenMaskedSum(token_embeddings, input_mask_expanded)
       IN  /\ token_masked_sum' = masked
           /\ IF IsArray(masked)
              THEN /\ mask_sum' = MaskSum(input_mask_expanded)
                   /\ pc' = "summed"
                   /\ UNCHANGED <<result, seen>>
              ELSE /\ Panic
                   /\ UNCHANGED mask_sum
    /\ UNCHANGED <<bound, calls, input, encoding, input_ids_array, attention_mask_array,
                   token_type_ids_array, outputs, token_embeddings,
                   input_mask_expanded, mean_pooling, l2_norm,
                   sentence_embeddings, vec>>

\* The mean over the mask (line 126).
Mean ==
    /\ pc = "summed"
    /\ trace' = Append(trace, "mean")
    /\ mean_pooling' = MeanPooling(token_masked_sum, mask_sum)
    /\ IF IsArray(MeanPooling(token_masked_sum, mask_sum))
       THEN pc' = "pooled" /\ UNCHANGED <<result, seen>>
       ELSE Panic
    /\ UNCHANGED <<bound, calls, input, encoding, input_ids_array, attention_mask_array,
                   token_type_ids_array, outputs, token_embeddings,
                   input_mask_expanded, token_masked_sum, mask_sum, l2_norm,
                   sentence_embeddings, vec>>

\* The L2 normalisation (lines 127-128).
Normalize ==
    /\ pc = "pooled"
    /\ trace' = Append(trace, "normalize")
    /\ l2_norm' = L2Norm(mean_pooling)
    /\ sentence_embeddings' = SentenceEmbeddings(mean_pooling, L2Norm(mean_pooling))
    /\ pc' = "normalized"
    /\ UNCHANGED <<bound, calls, input, encoding, input_ids_array, attention_mask_array,
                   token_type_ids_array, outputs, token_embeddings,
                   input_mask_expanded, token_masked_sum, mask_sum, mean_pooling,
                   vec, result, seen>>

\* The Vec<f32> of the result (lines 131-134).
CollectVec ==
    /\ pc = "normalized"
    /\ trace' = Append(trace, "collect")
    /\ vec' = Collect(sentence_embeddings)
    /\ pc' = "collected"
    /\ UNCHANGED <<bound, calls, input, encoding, input_ids_array, attention_mask_array,
                   token_type_ids_array, outputs, token_embeddings,
                   input_mask_expanded, token_masked_sum, mask_sum, mean_pooling,
                   l2_norm, sentence_embeddings, result, seen>>

\* Ok(vec) (line 135).
Return ==
    /\ pc = "collected"
    /\ trace' = Append(trace, "return")
    /\ Leave(Ok(vec))
    /\ UNCHANGED <<bound, calls, input>>

Next ==
    \/ Call
    \/ Encode
    \/ BuildArrays
    \/ Run
    \/ Expand
    \/ Sums
    \/ Mean
    \/ Normalize
    \/ CollectVec
    \/ Return

Spec ==
    Init /\ [][Next]_vars

----------------------------------------------------------------------------
\* What the claims speak of.

\* The call has ended with a value for its caller.
Returned ==
    pc = "idle" /\ trace # <<>>

\* The mask of the call, as the tokenizer gave it.
CallMask ==
    encoding.attention_mask

\* The 1-based positions the mask marks 1.
RealPositions ==
    {i \in 1..Len(CallMask) : CallMask[i] = 1}

\* The hidden dimension and the sequence length of the model's output.
HiddenDim ==
    token_embeddings.shape[3]

SeqLen ==
    token_embeddings.shape[2]

\* The sequence of the elements of s at the positions of the set ps, in order.
RECURSIVE Pick(_, _, _)
Pick(s, ps, i) ==
    IF i > Len(s) THEN <<>>
    ELSE (IF i \in ps THEN <<s[i]>> ELSE <<>>) \o Pick(s, ps, i + 1)

\* Component j (0-based) of the hidden states, one value per position.
Column(j) ==
    [i \in 1..SeqLen |-> token_embeddings.data[<<0, i - 1, j>>]]

\* The arithmetic mean of component j over the positions the mask marks 1.
MeanOfReal(j) ==
    FDiv(FoldAdd(Zero, Pick(Column(j), RealPositions, 1)),
         Fin(Cardinality(RealPositions), 1))

\* The mask and the hidden states have one sequence length.
ShapesAgree ==
    SeqLen = Len(CallMask)

PooledEqualsMeanOfReal ==
    /\ mean_pooling.shape = <<1, HiddenDim>>
    /\ \A j \in 0..(HiddenDim - 1) : mean_pooling.data[<<0, j>>] = MeanOfReal(j)

\* Every hidden state at a position the mask marks 0 is finite.
PaddingFinite ==
    \A i \in (1..SeqLen) \ RealPositions :
        \A j \in 0..(HiddenDim - 1) : IsFin(token_embeddings.data[<<0, i - 1, j>>])

\* C1 as claimed: for a 0/1 mask with at least one 1 and hidden states of the
\* mask's length, the pooled vector is, component by component, the mean of
\* the hidden states at the positions marked 1, whatever the positions marked
\* 0 hold.
C1_PoolingExcludesPadding_Original ==
    (pc = "pooled" /\ ShapesAgree /\ RealPositions # {})
        => PooledEqualsMeanOfReal

\* C1 amended: for a 0/1 mask with at least one 1 and hidden states of the
\* mask's length, the pooled vector is, component by component, the mean of
\* the hidden states at the positions marked 1, whatever finite values the
\* positions marked 0 hold.
C1_PoolingExcludesFinitePadding ==
    (pc = "pooled" /\ ShapesAgree /\ RealPositions # {} /\ PaddingFinite)
        => PooledEqualsMeanOfReal

\* A pooled call whose mask marks a position 0 that holds a finite hidden
\* state other than zero.
C1_Witness ==
    /\ pc = "pooled"
    /\ ShapesAgree
    /\ RealPositions # {}
    /\ PaddingFinite
    /\ \E i \in (1..SeqLen) \ RealPositions :
          ~IsZero(token_embeddings.data[<<0, i - 1, 0>>])

\* The pooled components, in index order.
Pooled ==
    Iter(mean_pooling)

\* The sum of the squares of a sequence of f32.
SumOfSquares(s) ==
    FoldAdd(Zero, [i \in 1..Len(s) |-> FPowi2(s[i])])

PooledFiniteNonZero ==
    /\ \A i \in 1..Len(Pooled) : IsFin(Pooled[i])
    /\ \E i \in 1..Len(Pooled) : ~IsZero(Pooled[i])

UnitVector(v) ==
    /\ \A i \in 1..Len(v.items) : IsFin(v.items[i])
    /\ SumOfSquares(v.items) = Fin(1, 1)

\* The result of the collaborators on the text of the call.
Encoded ==
    tokenizer[input]

Inferred ==
    session[RunInputs(Encoded)]

\* The tokenizer gave the text of the call a token that the mask marks 1, and
\* the model gave finite hidden states, for one position at least.
HasTokens ==
    /\ Encoded.tag = "ok"
    /\ \E i \in 1..Len(Encoded.attention_mask) : Encoded.attention_mask[i] = 1
    /\ Inferred.tag = "ok"
          => LET hidden == Inferred.value.items[1]
             IN  /\ hidden.shape[2] >= 1
                 /\ \A idx \in DOMAIN hidden.data : IsFin(hidden.data[idx])

\* C3 as claimed, for a call with tokens and finite hidden states: a call that returns a vector
\* returns a unit-norm vector of finite components, for every tokenizer
\* output and every hidden-state tensor.
C3_VectorOrError ==
    (Returned /\ result.tag = "ok" /\ HasTokens) => UnitVector(result.value)

\* C4: when encode fails the call returns the tokenizer's error and does
\* nothing after encode; when the run fails the call returns the inference
\* error and does nothing after the run; no vector is returned then.
C4_ErrorsPropagate ==
    /\ (trace # <<>> /\ Encoded.tag = "err")
          => /\ trace = <<"encode(input, true)">>
             /\ pc = "idle"
             /\ result = Encoded
    /\ (trace # <<>> /\ Encoded.tag = "ok" /\ Inferred.tag = "err"
            /\ Len(trace) >= 3)
          => /\ trace = <<"encode(input, true)", "build", "run">>
             /\ pc = "idle"
             /\ result = Inferred

\* A call that returned the error of the inference run.
C4_Witness ==
    /\ Returned
    /\ Encoded.tag = "ok"
    /\ result = InferenceError

\* The model's hidden states have another sequence length than the mask.
ShapeMismatch ==
    /\ Encoded.tag = "ok"
    /\ Inferred.tag = "ok"
    /\ Inferred.value.items[1].shape[2] # Len(Encoded.attention_mask)

\* C5 as claimed, for a call with tokens and finite hidden states: no call
\* whose mask and hidden states differ in sequence length returns a vector.
C5_MismatchFailsLoudly ==
    (Returned /\ ShapeMismatch /\ HasTokens) => result.tag # "ok"

\* C6: a returned vector has the length of the hidden dimension of the
\* model's first output, shape()[2].
C6_OutputLength ==
    (Returned /\ result.tag = "ok")
        => Len(result.value.items) = Inferred.value.items[1].shape[3]

\* The empty string returned a vector of two components from two tokens.
C6_Witness ==
    /\ Returned
    /\ input = ""
    /\ result.tag = "ok"
    /\ Len(result.value.items) = 2
    /\ Len(Encoded.attention_mask) = 2

\* The steps of a call, in the order of the source.
StepOrder ==
    <<"encode(input, true)", "build", "run", "expand", "sums", "mean",
      "normalize", "collect", "return">>

\* C7: the steps of a call are a prefix of tokenize with special tokens,
\* build, run, pool, normalise, return: each step at most once, in this
\* order, the run only after encode succeeded, nothing after a failure.
C7_StepsInOrder ==
    /\ Len(trace) <= Len(StepOrder)
    /\ \A i \in 1..Len(trace) : trace[i] = StepOrder[i]
    /\ Len(trace) >= 3 => Encoded.tag = "ok"
    /\ (Returned /\ result.tag = "err")
          => trace[Len(trace)] \in {"encode(input, true)", "run"}

\* A call that ran every step.
C7_Witness ==
    Returned /\ trace = StepOrder

\* C8: a call returns what the first call with its text returned.
C8_Deterministic ==
    Returned => result = seen[input]

\* The second call with a text returned a vector, after a call with the
\* other text that ended otherwise.
C8_Witness ==
    /\ Returned
    /\ calls[input] = 2
    /\ result.tag = "ok"
    /\ \E t \in DOMAIN tokenizer :
          t # input /\ seen[t] # NoValue /\ seen[t] # seen[input]

\* C9: no step changes the environment, the tokenizer or the session, and
\* no local of the call outlives it.
C9_Frame ==
    [][bound' = bound /\ (pc' = "idle" => LocalsDropped')]_vars

\* A call returned a vector and its locals are gone.
C9_Witness ==
    /\ Returned
    /\ result.tag = "ok"
    /\ LocalsDropped
    /\ environment = Environment

\* The number of 1s of the mask, at least 1e-9.
ClampedCount ==
    IF RealPositions = {} THEN ClampMin ELSE Fin(Cardinality(RealPositions), 1)

\* C10: the divisor of the mean pooling is, in every hidden-dimension
\* position, the number of 1s of the mask clamped to at least 1e-9: never
\* zero, and 1e-9 for a mask without a 1.
C10_ClampedDivisor ==
    /\ pc \in {"summed", "pooled"}
          => /\ mask_sum.shape = <<1, HiddenDim>>
             /\ \A j \in 0..(HiddenDim - 1) :
                   /\ mask_sum.data[<<0, j>>] = ClampedCount
                   /\ ~IsZero(mask_sum.data[<<0, j>>])
    /\ pc = "pooled"
          => \A idx \in DOMAIN mean_pooling.data :
                mean_pooling.data[idx]
                    = FDiv(token_masked_sum.data[idx], ClampedCount)

\* A pooled call whose mask has tokens and marks every one of them 0.
C10_Witness ==
    /\ pc = "pooled"
    /\ Len(CallMask) > 0
    /\ RealPositions = {}
    /\ mask_sum.data[<<0, 0>>] = ClampMin

====
